---- MODULE Spec2Model ----
(***************************************************************************)
(* Bracket editing view (BracketPage) of the NBA playoff bracket frontend: *)
(* the in-memory bracket graph, the optimistic mutation handlers           *)
(* (handleSetWinner, handleSelectGames, handleUndo), forward propagation,  *)
(* play-in loser routing and reconciliation against the backend.           *)
(*                                                                         *)
(* One action is one synchronous run of the event loop: a handler up to    *)
(* its first await, or the continuation that runs when a network call      *)
(* settles.  React state updates queued during such a run are applied in   *)
(* order before the next event is handled.                                 *)
(***************************************************************************)
EXTENDS Integers, Sequences, FiniteSets, TLC

VARIABLES
    bracket,          \* useState<Bracket | null>; << >> is null
    matches,          \* useState<MatchesByConfRound | null>; << >> is null
    loading,          \* useState(true)
    updatingMatchId,  \* useState<string | null>
    error,            \* useState<string | null>
    bracketName,      \* useState("")
    pendingGames,     \* useState<Record<string, number | undefined>>
    isAdmin,          \* user.is_admin of the authenticated user
    saving,           \* useState(false)
    playoffsLocked,   \* useState(false)
    flagsFetch,       \* the GET /brackets/me of the mount effect: pending / done
    handlers,         \* the async handler runs that are suspended at an await
    srv,              \* the backend's record of this bracket
    clicks,           \* number of user actions the run still has
    last              \* the event handled last (history, read by the properties)

vars == << bracket, matches, loading, updatingMatchId, error, bracketName,
           pendingGames, isAdmin, saving, playoffsLocked,
           flagsFetch, handlers, srv, clicks, last >>

\* ---------------------------------------------------------------- bounds
\* number of handler runs that may be suspended at the same time
MaxInFlight == 1
\* number of user actions in one run of the view
MaxClicks == 2
\* the same two bounds for the runs with overlapping requests
MaxOverlap == 2
MaxOverlapClicks == 3
\* the user picks a series length among the offered options up to this one
MaxGames == 5

\* ---------------------------------------------------------------- values
NULL == "null"
\* predicted_winner_games: number | null -- null is written 0
NoGames == 0
\* matches === null / bracket === null
NoMatches == << >>
NoBracket == << >>

gameOptions == {4, 5, 6, 7}
GamesInputs == {g \in gameOptions : g <= MaxGames}
Sides == {"A", "B"}

\* ---------------------------------------------------------------- the bracket held by the backend
MatchIds == {"p2", "p3", "e3", "r1", "r2"}

\* team table of the backend: display metadata is denormalised onto matches
TeamIds == {"LAL", "GSW", "ATL", "DEN", "BOS"}
TeamName(t) == IF t = NULL THEN NULL
               ELSE CASE t = "LAL" -> "Lakers" [] t = "GSW" -> "Warriors"
                      [] t = "ATL" -> "Hawks" [] t = "DEN" -> "Nuggets"
                      [] t = "BOS" -> "Celtics"
TeamCode(t) == t
\* a team without a logo: the key holds null
TeamLogo(t) == IF t \in {NULL, "GSW"} THEN NULL
               ELSE CASE t = "LAL" -> "lal.png" [] t = "ATL" -> "atl.png"
                      [] t = "DEN" -> "den.png" [] t = "BOS" -> "bos.png"
TeamPrimary(t) == IF t = NULL THEN NULL
                  ELSE CASE t = "LAL" -> "#552583" [] t = "GSW" -> "#1D428A"
                         [] t = "ATL" -> "#E03A3E" [] t = "DEN" -> "#0E2240"
                         [] t = "BOS" -> "#007A33"
TeamSecondary(t) == IF t = NULL THEN NULL
                    ELSE CASE t = "LAL" -> "#FDB927" [] t = "GSW" -> "#FFC72C"
                           [] t = "ATL" -> "#C1D32F" [] t = "DEN" -> "#FEC524"
                           [] t = "BOS" -> "#BA9653"

\* type Match & MatchWithTeamMeta
MkMatch(id, conf, round, slot, ta, tb, nextId, nextSlot) ==
    [ id |-> id, conference |-> conf, round |-> round, slot |-> slot,
      team_a |-> ta, team_b |-> tb,
      predicted_winner |-> NULL, predicted_winner_games |-> NoGames,
      next_match_id |-> nextId, next_slot |-> nextSlot,
      team_a_name |-> TeamName(ta), team_a_code |-> TeamCode(ta),
      team_a_logo_url |-> TeamLogo(ta),
      team_a_primary_color |-> TeamPrimary(ta),
      team_a_secondary_color |-> TeamSecondary(ta),
      team_b_name |-> TeamName(tb), team_b_code |-> TeamCode(tb),
      team_b_logo_url |-> TeamLogo(tb),
      team_b_primary_color |-> TeamPrimary(tb),
      team_b_secondary_color |-> TeamSecondary(tb) ]

\* A bracket without picks: west play-in game 2 (its winner is seeded into
\* round 1, its loser meets ATL in play-in game 3), a round-1 series feeding
\* a round-2 series, and the east play-in game 3 whose teams are not known yet.
FreshMatches ==
    [ id \in MatchIds |->
        CASE id = "p2" -> MkMatch("p2", "west", 0, 2, "LAL", "GSW", "r1", "b")
          [] id = "p3" -> MkMatch("p3", "west", 0, 3, "ATL", NULL, NULL, NULL)
          [] id = "e3" -> MkMatch("e3", "east", 0, 3, NULL, NULL, NULL, NULL)
          [] id = "r1" -> MkMatch("r1", "west", 1, 2, "DEN", NULL, "r2", "a")
          [] id = "r2" -> MkMatch("r2", "west", 2, 1, NULL, "BOS", NULL, NULL) ]

\* who looks at the bracket: its owner, an admin on the master bracket, a visitor
Owner == [is_owner |-> TRUE,  is_master |-> FALSE, admin |-> FALSE]
MasterAdmin == [is_owner |-> FALSE, is_master |-> TRUE,  admin |-> TRUE]
Visitor == [is_owner |-> FALSE, is_master |-> FALSE, admin |-> FALSE]

MkBracket(role) == [ id |-> "b1", name |-> "My bracket",
                     is_owner |-> role.is_owner, is_master |-> role.is_master ]

\* ---------------------------------------------------------------- field access by side
TeamKey(side) == IF side = "A" THEN "team_a" ELSE "team_b"
NameKey(side) == IF side = "A" THEN "team_a_name" ELSE "team_b_name"
CodeKey(side) == IF side = "A" THEN "team_a_code" ELSE "team_b_code"
LogoKey(side) == IF side = "A" THEN "team_a_logo_url" ELSE "team_b_logo_url"
PrimaryKey(side) == IF side = "A" THEN "team_a_primary_color" ELSE "team_b_primary_color"
SecondaryKey(side) == IF side = "A" THEN "team_a_secondary_color" ELSE "team_b_secondary_color"
Other(side) == IF side = "A" THEN "B" ELSE "A"

\* ---------------------------------------------------------------- derived flags
isOwner == IF bracket = NoBracket THEN FALSE ELSE bracket.is_owner
isMaster == IF bracket = NoBracket THEN FALSE ELSE bracket.is_master
\* (variant: everybody may edit)
canEdit_Anyone == TRUE

canEdit == isOwner \/ (isAdmin /\ isMaster)
savingLockedForUser == playoffsLocked /\ ~isAdmin

\* allDecided: every match with both participants has a winner and, after
\* the play-in round, a series length; false for a null or empty graph
allDecided ==
    /\ matches # NoMatches
    /\ DOMAIN matches # {}
    /\ \A k \in DOMAIN matches :
           \/ matches[k].team_a = NULL
           \/ matches[k].team_b = NULL
           \/ /\ matches[k].predicted_winner # NULL
              /\ ~(matches[k].round > 0 /\ matches[k].predicted_winner_games = NoGames)

\* bracketName.trim()
trimmedName == IF bracketName \in {"", " "} THEN "" ELSE bracketName

\* (variant: the save button does not wait for the picks)
canSave_IgnoresDecided ==
    canEdit /\ trimmedName # "" /\ ~saving /\ ~savingLockedForUser

canSave ==
    canEdit /\ allDecided /\ trimmedName # "" /\ ~saving /\ ~savingLockedForUser

\* ---------------------------------------------------------------- local graph updates
\* { ...m, key: value, ... }: the updaters spread the match and overwrite keys
Spread(m, overwritten) ==
    [f \in DOMAIN m |-> IF f \in DOMAIN overwritten THEN overwritten[f] ELSE m[f]]

\* updateMatchInState: map over every conference and round, replacing the
\* match whose id is matchId by its updated copy; a null graph stays null
updateMatchInState(prev, matchId, overwritten) ==
    IF prev = NoMatches THEN prev
    ELSE [k \in DOMAIN prev |->
            IF prev[k].id = matchId THEN Spread(prev[k], overwritten) ELSE prev[k]]

\* the updater of updateNextMatchSlotInState: the winner's id and display
\* metadata are copied from the source match into the destination slot and
\* the prediction of the destination match is cleared
\* (variant: the stale prediction of the destination match is kept)
NextSlotUpdater_KeepsPick(match, winnerSide, winnerTeamId, dest) ==
    (TeamKey(dest) :> winnerTeamId)
    @@ (NameKey(dest) :> match[NameKey(winnerSide)])
    @@ (CodeKey(dest) :> match[CodeKey(winnerSide)])
    @@ (LogoKey(dest) :> match[LogoKey(winnerSide)])
    @@ (PrimaryKey(dest) :> match[PrimaryKey(winnerSide)])
    @@ (SecondaryKey(dest) :> match[SecondaryKey(winnerSide)])

\* (variant: only the winner of the destination match is cleared, its series
\* length is kept)
NextSlotUpdater_KeepsGames(match, winnerSide, winnerTeamId, dest) ==
    (TeamKey(dest) :> winnerTeamId)
    @@ (NameKey(dest) :> match[NameKey(winnerSide)])
    @@ (CodeKey(dest) :> match[CodeKey(winnerSide)])
    @@ (LogoKey(dest) :> match[LogoKey(winnerSide)])
    @@ (PrimaryKey(dest) :> match[PrimaryKey(winnerSide)])
    @@ (SecondaryKey(dest) :> match[SecondaryKey(winnerSide)])
    @@ [predicted_winner |-> NULL]

NextSlotUpdater(match, winnerSide, winnerTeamId, dest) ==
    (TeamKey(dest) :> winnerTeamId)
    @@ (NameKey(dest) :> match[NameKey(winnerSide)])
    @@ (CodeKey(dest) :> match[CodeKey(winnerSide)])
    @@ (LogoKey(dest) :> match[LogoKey(winnerSide)])
    @@ (PrimaryKey(dest) :> match[PrimaryKey(winnerSide)])
    @@ (SecondaryKey(dest) :> match[SecondaryKey(winnerSide)])
    @@ [predicted_winner |-> NULL, predicted_winner_games |-> NoGames]

\* (variant: the metadata is read from the destination's side of the source)
updateNextMatchSlotInState_SrcFromDest(prev, match, winnerSide, winnerTeamId) ==
    IF match.next_match_id = NULL \/ match.next_slot = NULL THEN prev
    ELSE LET destSlotLetter == IF match.next_slot = "a" THEN "A" ELSE "B"
         IN  updateMatchInState(prev, match.next_match_id,
                NextSlotUpdater(match, destSlotLetter, winnerTeamId, destSlotLetter))

updateNextMatchSlotInState(prev, match, winnerSide, winnerTeamId) ==
    IF match.next_match_id = NULL \/ match.next_slot = NULL THEN prev
    ELSE LET destSlotLetter == IF match.next_slot = "a" THEN "A" ELSE "B"
         IN  updateMatchInState(prev, match.next_match_id,
                NextSlotUpdater(match, winnerSide, winnerTeamId, destSlotLetter))

\* the updater of updatePlayInGame3LoserInState: the loser goes to slot B
\* (variant: the metadata of the loser is not copied)
Game3Updater_IdOnly(src, loserSide, loserTeamId) ==
    [ team_b |-> loserTeamId,
      predicted_winner |-> NULL,
      predicted_winner_games |-> NoGames ]

Game3Updater(src, loserSide, loserTeamId) ==
    [ team_b |-> loserTeamId,
      team_b_name |-> src[NameKey(loserSide)],
      team_b_code |-> src[CodeKey(loserSide)],
      team_b_logo_url |-> src[LogoKey(loserSide)],
      team_b_primary_color |-> src[PrimaryKey(loserSide)],
      team_b_secondary_color |-> src[SecondaryKey(loserSide)],
      predicted_winner |-> NULL,
      predicted_winner_games |-> NoGames ]

\* (variant: game 3 of any conference is written)
updatePlayInGame3LoserInState_AnyConference(prev, rendered, match, loserSide, loserTeamId) ==
    IF match.round # 0 \/ match.slot # 2 THEN prev
    ELSE IF rendered = NoMatches THEN prev
    ELSE [k \in DOMAIN prev |->
            IF prev[k].round = 0 /\ prev[k].slot = 3
            THEN Spread(prev[k], Game3Updater(match, loserSide, loserTeamId))
            ELSE prev[k]]

\* game 3 is looked up in the graph of the render the handler was created in
\* (rendered), the update is queued on the state (prev)
updatePlayInGame3LoserInState(prev, rendered, match, loserSide, loserTeamId) ==
    IF match.round # 0 \/ match.slot # 2 THEN prev
    ELSE IF rendered = NoMatches THEN prev
    ELSE LET roundMatches == {k \in DOMAIN rendered :
                                 /\ rendered[k].conference = match.conference
                                 /\ rendered[k].round = 0}
             game3s == {k \in roundMatches : rendered[k].slot = 3}
         IN  IF game3s = {} THEN prev
             ELSE LET game3 == rendered[CHOOSE k \in game3s : TRUE]
                  IN  updateMatchInState(prev, game3.id,
                         Game3Updater(match, loserSide, loserTeamId))

\* handleSetWinner: the series length recorded with the pick
\* (variant: no special case for the play-in round)
GamesForPick_NoPlayIn(match, winnerTeamId, pending) ==
    LET existing == IF match.predicted_winner = winnerTeamId
                    THEN match.predicted_winner_games ELSE NoGames
    IN  IF existing # NoGames THEN existing
        ELSE IF pending # NoGames THEN pending
        ELSE 4

\* (variant: the recorded length is reused whoever the recorded winner is)
GamesForPick_AnyWinner(match, winnerTeamId, pending) ==
    IF match.round = 0 THEN 1
    ELSE IF match.predicted_winner_games # NoGames THEN match.predicted_winner_games
    ELSE IF pending # NoGames THEN pending
    ELSE 4

\* (variant: the recorded length of the same winner is not looked at)
GamesForPick_IgnoresExisting(match, winnerTeamId, pending) ==
    IF match.round = 0 THEN 1
    ELSE IF pending # NoGames THEN pending
    ELSE 4

\* (variant: without a recorded or pending length the pick records 3 games)
GamesForPick_DefaultThree(match, winnerTeamId, pending) ==
    IF match.round = 0 THEN 1
    ELSE LET existing == IF match.predicted_winner = winnerTeamId
                         THEN match.predicted_winner_games ELSE NoGames
         IN  IF existing # NoGames THEN existing
             ELSE IF pending # NoGames THEN pending
             ELSE 3

GamesForPick(match, winnerTeamId, pending) ==
    IF match.round = 0 THEN 1
    ELSE LET existing == IF match.predicted_winner = winnerTeamId
                         THEN match.predicted_winner_games ELSE NoGames
         IN  IF existing # NoGames THEN existing
             ELSE IF pending # NoGames THEN pending
             ELSE 4

\* (variant: the pick itself is not written before the request is sent)
SetWinnerInState_RequestFirst(prev, match, team, games) ==
    LET winnerTeamId == match[TeamKey(team)]
        loserTeamId == match[TeamKey(Other(team))]
        g2 == updateNextMatchSlotInState(prev, match, team, winnerTeamId)
    IN  updatePlayInGame3LoserInState(g2, prev, match, Other(team), loserTeamId)

\* the three optimistic updates handleSetWinner queues, in order
SetWinnerInState(prev, match, team, games) ==
    LET winnerTeamId == match[TeamKey(team)]
        loserTeamId == match[TeamKey(Other(team))]
        g1 == updateMatchInState(prev, match.id,
                 [predicted_winner |-> winnerTeamId,
                  predicted_winner_games |-> games])
        g2 == updateNextMatchSlotInState(g1, match, team, winnerTeamId)
    IN  updatePlayInGame3LoserInState(g2, prev, match, Other(team), loserTeamId)

\* ---------------------------------------------------------------- the backend
\* The backend is the system of record and applies the propagation rules
\* itself: PATCH /bracket/:id/match/:mid and GET /bracket/:id.
SrvSideOf(m, team) == IF team = m.team_a THEN "A" ELSE "B"

SrvPutTeam(m, dest, team) ==
    [m EXCEPT ![TeamKey(dest)] = team,
              ![NameKey(dest)] = TeamName(team),
              ![CodeKey(dest)] = TeamCode(team),
              ![LogoKey(dest)] = TeamLogo(team),
              ![PrimaryKey(dest)] = TeamPrimary(team),
              ![SecondaryKey(dest)] = TeamSecondary(team),
              !.predicted_winner = NULL,
              !.predicted_winner_games = NoGames]

\* the backend puts `winner` (or nothing, on undo) into the slot the match
\* feeds and, for play-in game 2, `loser` into slot B of play-in game 3
SrvPropagate(g, id, winner, loser) ==
    LET m == g[id]
        dest == IF m.next_slot = "a" THEN "A" ELSE "B"
        g3s == {k \in DOMAIN g : /\ g[k].conference = m.conference
                                  /\ g[k].round = 0 /\ g[k].slot = 3}
    IN  [k \in DOMAIN g |->
            IF m.next_match_id # NULL /\ k = m.next_match_id
              THEN SrvPutTeam(g[k], dest, winner)
            ELSE IF m.round = 0 /\ m.slot = 2 /\ k \in g3s
              THEN SrvPutTeam(g[k], "B", loser)
            ELSE g[k]]

\* set_winner is accepted for a team that plays the match, with a series
\* length that fits the round
SrvAccepts(g, req) ==
    CASE req.kind = "undo" -> TRUE
      [] OTHER -> /\ g[req.match].team_a # NULL
                  /\ g[req.match].team_b # NULL
                  /\ req.team \in {g[req.match].team_a, g[req.match].team_b}
                  /\ IF g[req.match].round = 0 THEN req.games = 1
                     ELSE req.games \in gameOptions

SrvApply(g, req) ==
    LET m == g[req.match] IN
    IF req.kind = "undo"
    THEN IF m.predicted_winner = NULL THEN g
         ELSE SrvPropagate([g EXCEPT ![req.match].predicted_winner = NULL,
                                ![req.match].predicted_winner_games = NoGames],
                           req.match, NULL, NULL)
    ELSE LET side == SrvSideOf(m, req.team)
         IN  SrvPropagate([g EXCEPT ![req.match].predicted_winner = req.team,
                                    ![req.match].predicted_winner_games = req.games],
                          req.match, req.team, m[TeamKey(Other(side))])

\* ---------------------------------------------------------------- suspended handler runs
Slots == DOMAIN handlers
Idle == [pc |-> "idle", kind |-> "none", match |-> NULL, team |-> NULL,
         games |-> NoGames, caught |-> FALSE, data |-> << >>]
Free == {h \in Slots : handlers[h].pc = "idle"}
NewSlot == CHOOSE h \in Free : \A k \in Free : h <= k

\* await patch(...): the request of a handler run
Request(kind, matchId, team, games) ==
    [pc |-> "patch", kind |-> kind, match |-> matchId, team |-> team,
     games |-> games, caught |-> FALSE, data |-> << >>]

\* what the event handled last was: a handler called by the user (op, match,
\* side, games) or the continuation of a suspended run (op, kind, match, ok:
\* the awaited call was fulfilled, caught: the run is in its catch block)
Event(op, kind, matchId, side, games, ok, caught) ==
    [op |-> op, kind |-> kind, match |-> matchId, side |-> side,
     games |-> games, ok |-> ok, caught |-> caught]

\* no user action since the last network event
NoEvent == Event("none", "none", NULL, NULL, NoGames, TRUE, FALSE)

\* the user acts on the page once the playoff flags have arrived, and a
\* bounded number of times in a run
UserActs == clicks > 0 /\ flagsFetch = "done"

\* a control of match id can be used: its buttons are disabled while
\* updatingMatchId === m.id
ControlsEnabled(id) == updatingMatchId # id

\* ---------------------------------------------------------------- loadBracket
\* loadBracket up to `await get(...)`: setError(null) and the GET is sent
\* (silent: loading is left alone)
LoadStarted(run) == [run EXCEPT !.pc = "load", !.data = << >>]

\* ---------------------------------------------------------------- user actions
\* handleSetWinner(match, team) up to `await patch(...)`
handleSetWinner(id, team) ==
    /\ ControlsEnabled(id)
    /\ Free # {}
    /\ UserActs
    /\ clicks' = clicks - 1
    /\ IF \/ matches = NoMatches
          \/ ~canEdit
          \/ matches[id].team_a = NULL
          \/ matches[id].team_b = NULL
       THEN /\ last' = Event("handleSetWinner", "set_winner", id, team, NoGames, TRUE, FALSE)
            /\ UNCHANGED << matches, pendingGames, updatingMatchId, error, handlers >>
       ELSE LET match == matches[id]
                winnerTeamId == match[TeamKey(team)]
                games == GamesForPick(match, winnerTeamId, pendingGames[id])
            IN  /\ matches' = SetWinnerInState(matches, match, team, games)
                /\ pendingGames' = [pendingGames EXCEPT ![id] = NoGames]
                /\ updatingMatchId' = id
                /\ error' = NULL
                /\ handlers' = [handlers EXCEPT ![NewSlot] =
                                   Request("set_winner", id, winnerTeamId, games)]
                /\ last' = Event("handleSetWinner", "set_winner", id, team, games, TRUE, FALSE)
    /\ UNCHANGED << bracket, loading, bracketName, isAdmin, saving,
                    playoffsLocked, flagsFetch, srv >>

\* handleUndo: only admin+master can undo
\* (variant: whoever may edit may undo)
canUndo_Editors == canEdit

canUndo == isAdmin /\ isMaster

\* handleUndo: the optimistic update clears the pick of the match
\* (variant: the slot the match feeds is emptied as well, as on the backend)
UndoInState_Cascades(prev, id) ==
    SrvPropagate(updateMatchInState(prev, id,
                    [predicted_winner |-> NULL, predicted_winner_games |-> NoGames]),
                 id, NULL, NULL)

UndoInState(prev, id) ==
    updateMatchInState(prev, id,
        [predicted_winner |-> NULL, predicted_winner_games |-> NoGames])

\* handleUndo(match) up to `await patch(...)`
handleUndo(id) ==
    /\ ControlsEnabled(id)
    /\ Free # {}
    /\ UserActs
    /\ clicks' = clicks - 1
    /\ IF matches = NoMatches \/ ~canUndo
       THEN /\ last' = Event("handleUndo", "undo", id, NULL, NoGames, TRUE, FALSE)
            /\ UNCHANGED << matches, pendingGames, updatingMatchId, error, handlers >>
       ELSE /\ matches' = UndoInState(matches, id)
            /\ pendingGames' = [pendingGames EXCEPT ![id] = NoGames]
            /\ updatingMatchId' = id
            /\ error' = NULL
            /\ handlers' = [handlers EXCEPT ![NewSlot] =
                               Request("undo", id, NULL, NoGames)]
            /\ last' = Event("handleUndo", "undo", id, NULL, NoGames, TRUE, FALSE)
    /\ UNCHANGED << bracket, loading, bracketName, isAdmin, saving,
                    playoffsLocked, flagsFetch, srv >>

\* handleSelectGames: `if (match.round === 0) return;`
\* (variant: the early return is missing)
PlayInGamesFixed_Never(match) == FALSE

PlayInGamesFixed(match) == match.round = 0

\* handleSelectGames without a recorded winner: the length is kept pending
\* (variant: the length is not kept)
SetPending_Dropped(prev, id, gamesValue) == prev

SetPending(prev, id, gamesValue) == [prev EXCEPT ![id] = gamesValue]

\* handleSelectGames with a recorded winner: the optimistic update
\* (variant: the match's forward target is rewritten as by a pick)
SetGamesInState_Propagates(prev, match, gamesValue) ==
    LET side == IF match.predicted_winner = match.team_a THEN "A" ELSE "B"
    IN  updateNextMatchSlotInState(
            updateMatchInState(prev, match.id,
                [predicted_winner |-> match.predicted_winner,
                 predicted_winner_games |-> gamesValue]),
            match, side, match.predicted_winner)

SetGamesInState(prev, match, gamesValue) ==
    updateMatchInState(prev, match.id,
        [predicted_winner |-> prev[match.id].predicted_winner,
         predicted_winner_games |-> gamesValue])

\* handleSelectGames(match, gamesValue) up to its return or `await patch(...)`
handleSelectGames(id, gamesValue) ==
    /\ ControlsEnabled(id)
    /\ Free # {}
    /\ UserActs
    /\ clicks' = clicks - 1
    /\ IF matches = NoMatches \/ ~canEdit
       THEN /\ last' = Event("handleSelectGames", "set_games", id, NULL, gamesValue, TRUE, FALSE)
            /\ UNCHANGED << matches, pendingGames, updatingMatchId, error, handlers >>
       ELSE IF PlayInGamesFixed(matches[id])
       THEN /\ last' = Event("handleSelectGames", "set_games", id, NULL, gamesValue, TRUE, FALSE)
            /\ UNCHANGED << matches, pendingGames, updatingMatchId, error, handlers >>
       ELSE IF matches[id].predicted_winner = NULL
       THEN /\ pendingGames' = SetPending(pendingGames, id, gamesValue)
            /\ last' = Event("handleSelectGames", "set_games", id, NULL, gamesValue, TRUE, FALSE)
            /\ UNCHANGED << matches, updatingMatchId, error, handlers >>
       ELSE /\ matches' = SetGamesInState(matches, matches[id], gamesValue)
            /\ updatingMatchId' = id
            /\ error' = NULL
            /\ handlers' = [handlers EXCEPT ![NewSlot] =
                               Request("set_games", id,
                                       matches[id].predicted_winner, gamesValue)]
            /\ last' = Event("handleSelectGames", "set_games", id, NULL, gamesValue, TRUE, FALSE)
            /\ UNCHANGED pendingGames
    /\ UNCHANGED << bracket, loading, bracketName, isAdmin, saving,
                    playoffsLocked, flagsFetch, srv >>

\* ---------------------------------------------------------------- the network and the backend
\* the backend handles a PATCH: applies it, or rejects it (response not ok)
ServerPatch(h) ==
    /\ handlers[h].pc = "patch"
    /\ IF SrvAccepts(srv.matches, handlers[h])
       THEN /\ srv' = [srv EXCEPT !.matches = SrvApply(srv.matches, handlers[h])]
            /\ handlers' = [handlers EXCEPT ![h].pc = "patch_ok"]
       ELSE /\ handlers' = [handlers EXCEPT ![h].pc = "patch_err"]
            /\ UNCHANGED srv
    /\ last' = NoEvent
    /\ UNCHANGED << bracket, matches, loading, updatingMatchId, error,
                    bracketName, pendingGames, isAdmin, saving,
                    playoffsLocked, flagsFetch, clicks >>

\* the PATCH does not reach the backend (fetch rejects)
PatchLost(h) ==
    /\ handlers[h].pc = "patch"
    /\ handlers' = [handlers EXCEPT ![h].pc = "patch_err"]
    /\ last' = NoEvent
    /\ UNCHANGED << bracket, matches, loading, updatingMatchId, error,
                    bracketName, pendingGames, isAdmin, saving,
                    playoffsLocked, flagsFetch, srv, clicks >>

\* the backend answers GET /bracket/:id with its record
ServerLoad(h) ==
    /\ handlers[h].pc = "load"
    /\ handlers' = [handlers EXCEPT ![h].pc = "load_ok",
                                    ![h].data = [bracket |-> srv.bracket,
                                                 matches |-> srv.matches]]
    /\ last' = NoEvent
    /\ UNCHANGED << bracket, matches, loading, updatingMatchId, error,
                    bracketName, pendingGames, isAdmin, saving,
                    playoffsLocked, flagsFetch, srv, clicks >>

\* the GET fails (network error or response not ok)
LoadLost(h) ==
    /\ handlers[h].pc = "load"
    /\ handlers' = [handlers EXCEPT ![h].pc = "load_err"]
    /\ last' = NoEvent
    /\ UNCHANGED << bracket, matches, loading, updatingMatchId, error,
                    bracketName, pendingGames, isAdmin, saving,
                    playoffsLocked, flagsFetch, srv, clicks >>

\* ---------------------------------------------------------------- continuations
\* `finally { setUpdatingMatchId(null); }` at the end of a mutation handler
\* (variant: the marker is left as it is)
MarkerAfterRun_Kept == updatingMatchId

MarkerAfterRun == NULL

\* handleUndo awaits loadBracket({silent: true}) after a fulfilled request;
\* handleSetWinner and handleSelectGames leave the state as it is
\* (variant: no handler reloads after success)
ReloadsAfterSuccess_Never(kind) == FALSE

ReloadsAfterSuccess(kind) == kind = "undo"

\* `await patch(...)` settles in handleSetWinner, handleSelectGames or handleUndo.
\* Fulfilled: set-winner and set-games runs go to `finally`; an undo run
\* calls loadBracket({silent: true}).  Rejected: setError(message), then
\* loadBracket({silent: true}), whose setError(null) is applied after it.
PatchSettled(h) ==
    /\ handlers[h].pc \in {"patch_ok", "patch_err"}
    /\ IF handlers[h].pc = "patch_ok" /\ ~ReloadsAfterSuccess(handlers[h].kind)
       THEN /\ updatingMatchId' = MarkerAfterRun
            /\ handlers' = [handlers EXCEPT ![h] = Idle]
            /\ UNCHANGED error
       ELSE /\ error' = NULL
            /\ handlers' = [handlers EXCEPT ![h] =
                               LoadStarted([handlers[h] EXCEPT !.caught =
                                               (handlers[h].pc = "patch_err")])]
            /\ UNCHANGED updatingMatchId
    /\ last' = Event("PatchSettled", handlers[h].kind, handlers[h].match, NULL,
                     NoGames, handlers[h].pc = "patch_ok", FALSE)
    /\ UNCHANGED << bracket, matches, loading, bracketName, pendingGames,
                    isAdmin, saving,
                    playoffsLocked, flagsFetch, srv, clicks >>

\* loadBracket: setMatches(data.matches)
\* (variant: a graph already in memory is kept on reload)
LoadedMatches_FirstLoadOnly(data) ==
    IF matches = NoMatches THEN data.matches ELSE matches

LoadedMatches(data) == data.matches

\* loadBracket: setError(err.message || "Failed to load bracket")
\* (variant: the failure is swallowed without a message)
LoadFailureMessage_None == NULL

LoadFailureMessage == "Failed to load bracket"

\* loadBracket: the catch block calls no setter but setError
\* (variant: the graph in memory is dropped when the GET fails)
MatchesAfterFailedLoad_Dropped == NoMatches

MatchesAfterFailedLoad == matches

\* `await get(...)` settles in loadBracket; loadBracket never rejects, so
\* the run that awaited it goes on to its `finally` in the same turn
LoadSettled(h) ==
    /\ handlers[h].pc \in {"load_ok", "load_err"}
    /\ IF handlers[h].pc = "load_ok"
       THEN /\ bracket' = handlers[h].data.bracket
            /\ matches' = LoadedMatches(handlers[h].data)
            /\ bracketName' = handlers[h].data.bracket.name
            /\ UNCHANGED error
       ELSE /\ error' = LoadFailureMessage
            /\ matches' = MatchesAfterFailedLoad
            /\ UNCHANGED << bracket, bracketName >>
    /\ IF handlers[h].kind = "load"
       THEN loading' = FALSE /\ UNCHANGED updatingMatchId
       ELSE updatingMatchId' = MarkerAfterRun /\ UNCHANGED loading
    /\ handlers' = [handlers EXCEPT ![h] = Idle]
    /\ last' = Event("LoadSettled", handlers[h].kind, handlers[h].match, NULL,
                     NoGames, handlers[h].pc = "load_ok", handlers[h].caught)
    /\ UNCHANGED << pendingGames, isAdmin, saving,
                    playoffsLocked, flagsFetch, srv, clicks >>

\* ---------------------------------------------------------------- playoff flags
\* the mount effects fetch GET /brackets/me and store playoffs_locked (both
\* effects send the same request and store the same flag)
FlagsSettled ==
    /\ flagsFetch = "pending"
    /\ flagsFetch' = "done"
    /\ playoffsLocked' = srv.playoffs_locked
    /\ last' = NoEvent
    /\ UNCHANGED << bracket, matches, loading, updatingMatchId, error,
                    bracketName, pendingGames, isAdmin, saving,
                    handlers, srv, clicks >>

\* the fetch fails: the error is logged and the flag stays false
FlagsLost ==
    /\ flagsFetch = "pending"
    /\ flagsFetch' = "done"
    /\ last' = NoEvent
    /\ UNCHANGED << bracket, matches, loading, updatingMatchId, error,
                    bracketName, pendingGames, isAdmin, saving,
                    playoffsLocked, handlers, srv, clicks >>

\* ---------------------------------------------------------------- saving
\* the backend stores the name and marks the bracket saved (saved_at and
\* is_done only drive the display and are left out of the bracket record)
SrvSave(b, name) == [b EXCEPT !.name = name]

\* handleSaveBracket() up to `await patch(.../save)`
handleSaveBracket ==
    /\ Free # {}
    /\ UserActs
    /\ clicks' = clicks - 1
    /\ last' = Event("handleSaveBracket", "save", NULL, NULL, NoGames, TRUE, FALSE)
    /\ IF ~canSave
       THEN UNCHANGED << error, saving, handlers >>
       ELSE IF savingLockedForUser
       THEN /\ error' = "Brackets are locked; you can no longer save."
            /\ UNCHANGED << saving, handlers >>
       ELSE IF trimmedName = ""
       THEN /\ error' = "Please enter a bracket name before saving."
            /\ UNCHANGED << saving, handlers >>
       ELSE /\ saving' = TRUE
            /\ error' = NULL
            /\ handlers' = [handlers EXCEPT ![NewSlot] =
                               [Request("save", NULL, NULL, NoGames) EXCEPT
                                   !.pc = "save",
                                   !.data = [name |-> trimmedName]]]
    /\ UNCHANGED << bracket, matches, loading, updatingMatchId, bracketName,
                    pendingGames, isAdmin, playoffsLocked, flagsFetch, srv >>

\* the backend handles PATCH /bracket/:id/save
ServerSave(h) ==
    /\ handlers[h].pc = "save"
    /\ srv' = [srv EXCEPT !.bracket = SrvSave(srv.bracket, handlers[h].data.name)]
    /\ handlers' = [handlers EXCEPT ![h].pc = "save_ok",
                                    ![h].data = [name |-> srv'.bracket.name]]
    /\ last' = NoEvent
    /\ UNCHANGED << bracket, matches, loading, updatingMatchId, error,
                    bracketName, pendingGames, isAdmin, saving,
                    playoffsLocked, flagsFetch, clicks >>

\* the save request fails (network error or response not ok)
SaveLost(h) ==
    /\ handlers[h].pc = "save"
    /\ handlers' = [handlers EXCEPT ![h].pc = "save_err"]
    /\ last' = NoEvent
    /\ UNCHANGED << bracket, matches, loading, updatingMatchId, error,
                    bracketName, pendingGames, isAdmin, saving,
                    playoffsLocked, flagsFetch, srv, clicks >>

\* `await patch(.../save)` settles in handleSaveBracket (the transient
\* "Bracket saved!" message is display only and left out)
SaveSettled(h) ==
    /\ handlers[h].pc \in {"save_ok", "save_err"}
    /\ IF handlers[h].pc = "save_ok"
       THEN /\ bracket' = IF bracket = NoBracket THEN bracket
                          ELSE [bracket EXCEPT !.name = handlers[h].data.name]
            /\ UNCHANGED error
       ELSE /\ error' = "Failed to save bracket"
            /\ UNCHANGED bracket
    /\ saving' = FALSE
    /\ handlers' = [handlers EXCEPT ![h] = Idle]
    /\ last' = Event("SaveSettled", "save", NULL, NULL, NoGames,
                     handlers[h].pc = "save_ok", FALSE)
    /\ UNCHANGED << matches, loading, updatingMatchId, bracketName,
                    pendingGames, isAdmin, playoffsLocked, flagsFetch, srv, clicks >>

\* ---------------------------------------------------------------- specification
\* brackets the backend can hold when the view is opened: no pick yet; the
\* play-in game 2 picked; every series picked
HalfMatches ==
    SrvApply(FreshMatches, Request("set_winner", "p2", "LAL", 1))
FullMatches ==
    LET g1 == SrvApply(HalfMatches, Request("set_winner", "p3", "ATL", 1))
        g2 == SrvApply(g1, Request("set_winner", "r1", "LAL", 6))
    IN  SrvApply(g2, Request("set_winner", "r2", "BOS", 7))

\* a graph whose round-2 series links to a match that is not part of it
TruncatedMatches ==
    [HalfMatches EXCEPT !["r2"].next_match_id = "f1", !["r2"].next_slot = "a"]

\* a bracket whose matches object has no conference: like the null graph it
\* is not decided and offers no match to act on, and it is written like it
EmptyMatches == << >>

\* the views the runs start from: who opens which stored bracket, and
\* whether the playoffs are locked by then.  A view on a bracket with every
\* series picked has spent one of the run's user actions on those picks.
Views == { [role |-> Owner, stored |-> FreshMatches, locked |-> FALSE, spent |-> 0],
           [role |-> Owner, stored |-> TruncatedMatches, locked |-> FALSE, spent |-> 0],
           [role |-> Owner, stored |-> FullMatches, locked |-> FALSE, spent |-> 1],
           [role |-> Owner, stored |-> FullMatches, locked |-> TRUE, spent |-> 1],
           [role |-> Owner, stored |-> EmptyMatches, locked |-> FALSE, spent |-> 0],
           [role |-> MasterAdmin, stored |-> FullMatches, locked |-> FALSE, spent |-> 1],
           [role |-> Visitor, stored |-> HalfMatches, locked |-> FALSE, spent |-> 0] }

\* the component is mounted: the effect has called loadBracket()
Mounted(role, stored, locked, slots, budget) ==
    /\ bracket = NoBracket
    /\ matches = NoMatches
    /\ loading = TRUE
    /\ updatingMatchId = NULL
    /\ error = NULL
    /\ bracketName = ""
    /\ pendingGames = [id \in MatchIds |-> NoGames]
    /\ isAdmin = role.admin
    /\ saving = FALSE
    /\ playoffsLocked = FALSE
    /\ flagsFetch = "pending"
    /\ handlers = [h \in 1..slots |->
                      IF h = 1 THEN [Idle EXCEPT !.pc = "load", !.kind = "load"]
                      ELSE Idle]
    /\ srv = [bracket |-> MkBracket(role), matches |-> stored,
              playoffs_locked |-> locked]
    /\ clicks = budget
    /\ last = NoEvent

Init ==
    \E v \in Views :
        Mounted(v.role, v.stored, v.locked, MaxInFlight, MaxClicks - v.spent)

Next ==
    \/ \E id \in MatchIds, team \in Sides : handleSetWinner(id, team)
    \/ \E id \in MatchIds : handleUndo(id)
    \/ \E id \in MatchIds, g \in GamesInputs : handleSelectGames(id, g)
    \/ \E h \in Slots : ServerPatch(h)
    \/ \E h \in Slots : PatchLost(h)
    \/ \E h \in Slots : ServerLoad(h)
    \/ \E h \in Slots : LoadLost(h)
    \/ \E h \in Slots : PatchSettled(h)
    \/ \E h \in Slots : LoadSettled(h)
    \/ FlagsSettled
    \/ FlagsLost
    \/ handleSaveBracket
    \/ \E h \in Slots : ServerSave(h)
    \/ \E h \in Slots : SaveLost(h)
    \/ \E h \in Slots : SaveSettled(h)

Spec == Init /\ [][Next]_vars

\* runs in which requests overlap
OverlapViews ==
    { [role |-> Owner, stored |-> FreshMatches, locked |-> FALSE, spent |-> 0],
      [role |-> Owner, stored |-> HalfMatches, locked |-> FALSE, spent |-> 0],
      [role |-> MasterAdmin, stored |-> HalfMatches, locked |-> FALSE, spent |-> 0],
      [role |-> Visitor, stored |-> HalfMatches, locked |-> FALSE, spent |-> 0] }

InitOverlap ==
    \E v \in OverlapViews :
        Mounted(v.role, v.stored, v.locked, MaxOverlap, MaxOverlapClicks - v.spent)

\* no overlap view holds a decided bracket, and deciding one uses up the
\* click budget: the save button is only ever pressed while it is disabled,
\* and the three steps of a save request, which could never be taken, are
\* left out
NextOverlap ==
    \/ \E id \in MatchIds, team \in Sides : handleSetWinner(id, team)
    \/ \E id \in MatchIds : handleUndo(id)
    \/ \E id \in MatchIds, g \in GamesInputs : handleSelectGames(id, g)
    \/ \E h \in Slots : ServerPatch(h)
    \/ \E h \in Slots : PatchLost(h)
    \/ \E h \in Slots : ServerLoad(h)
    \/ \E h \in Slots : LoadLost(h)
    \/ \E h \in Slots : PatchSettled(h)
    \/ \E h \in Slots : LoadSettled(h)
    \/ FlagsSettled
    \/ FlagsLost
    \/ handleSaveBracket

\* no save request is sent in the overlap runs
OverlapNeverSaves == ~saving /\ (canSave => clicks = 0)

SpecOverlap == InitOverlap /\ [][NextOverlap]_vars

\* runs in which two handler runs can overlap, within the click budget of
\* the one-at-a-time runs
InitPair ==
    \E v \in Views :
        Mounted(v.role, v.stored, v.locked, MaxOverlap, MaxClicks - v.spent)

SpecPair == InitPair /\ [][Next]_vars

\* every request is eventually answered or fails, and the continuation of
\* a settled await is eventually run
NetworkStep(h) ==
    \/ ServerPatch(h) \/ PatchLost(h) \/ PatchSettled(h)
    \/ ServerLoad(h) \/ LoadLost(h) \/ LoadSettled(h)
    \/ ServerSave(h) \/ SaveLost(h) \/ SaveSettled(h)

RequestsSettle == \A h \in 1..MaxInFlight : WF_vars(NetworkStep(h))

\* the runs whose progress is checked: an unpicked and a fully picked
\* bracket, opened by the owner or by the admin
LiveViews == {v \in Views : v.stored \in {FreshMatches, FullMatches} /\ ~v.locked}

InitLive ==
    \E v \in LiveViews :
        Mounted(v.role, v.stored, v.locked, MaxInFlight, MaxClicks - v.spent)

SpecLive == InitLive /\ [][Next]_vars /\ RequestsSettle

\* ---------------------------------------------------------------- properties
\* a step in which the user called handleSetWinner(match id, side) and its
\* preconditions held: graph loaded, edit rights, both participants
SetWinnerStep(id, side) ==
    /\ clicks' # clicks
    /\ last'.op = "handleSetWinner" /\ last'.match = id /\ last'.side = side
    /\ matches # NoMatches
    /\ canEdit
    /\ matches[id].team_a # NULL /\ matches[id].team_b # NULL

\* slot `side` of match m holds the team and display metadata of slot
\* `srcSide` of match src
SameTeam(m, side, src, srcSide) ==
    /\ m[TeamKey(side)] = src[TeamKey(srcSide)]
    /\ m[NameKey(side)] = src[NameKey(srcSide)]
    /\ m[CodeKey(side)] = src[CodeKey(srcSide)]
    /\ m[LogoKey(side)] = src[LogoKey(srcSide)]
    /\ m[PrimaryKey(side)] = src[PrimaryKey(srcSide)]
    /\ m[SecondaryKey(side)] = src[SecondaryKey(srcSide)]

NoPrediction(m) ==
    m.predicted_winner = NULL /\ m.predicted_winner_games = NoGames

\* C1: in every reachable state of the in-memory graph each match's
\* predicted_winner is absent or equal to the match's team_a or team_b.
C1_WinnerIsParticipant ==
    matches # NoMatches =>
        \A id \in DOMAIN matches :
            \/ matches[id].predicted_winner = NULL
            \/ matches[id].predicted_winner \in {matches[id].team_a, matches[id].team_b}

\* the pick of play-in game 2 was switched to GSW while the round-1 series
\* it feeds still had LAL picked: GSW replaced LAL there and the pick is gone
C1_Witness ==
    /\ last.op = "handleSetWinner" /\ last.match = "p2" /\ last.side = "B"
    /\ matches # NoMatches
    /\ matches["p2"].predicted_winner = "GSW"
    /\ matches["r1"].team_b = "GSW"
    /\ matches["r1"].predicted_winner = NULL
    /\ srv.matches["r1"].predicted_winner = "LAL"

\* C2: setWinner(M, side) on a match with both participants and a forward
\* link to a match T of the graph leaves T's linked slot equal to M's winning
\* side (team id and the five display fields), T without prediction, and
\* T's other slot as it was.
C2_ForwardPropagation ==
    [][ \A id \in MatchIds, side \in Sides :
          ( /\ SetWinnerStep(id, side)
            /\ matches[id].next_match_id \in DOMAIN matches
            /\ matches[id].next_slot \in {"a", "b"} )
          => LET M == matches[id]
                 T == M.next_match_id
                 s == IF M.next_slot = "a" THEN "A" ELSE "B"
             IN  /\ SameTeam(matches'[T], s, M, side)
                 /\ NoPrediction(matches'[T])
                 /\ SameTeam(matches'[T], Other(s), matches[T], Other(s)) ]_vars

\* DEN was picked in the round-1 series while the round-2 series it feeds
\* had BOS picked: slot A of round 2 shows the Nuggets, BOS stays in slot B
C2_Witness ==
    /\ last.op = "handleSetWinner" /\ last.match = "r1" /\ last.side = "A"
    /\ matches # NoMatches
    /\ matches["r2"].team_a = "DEN" /\ matches["r2"].team_a_name = "Nuggets"
    /\ matches["r2"].team_b = "BOS"
    /\ matches["r2"].predicted_winner = NULL
    /\ srv.matches["r2"].predicted_winner = "BOS"

\* C3: setWinner on the round-0 / slot-2 match of a conference puts the losing
\* side (team id and display metadata) into team B of that conference's
\* round-0 / slot-3 match and clears its prediction, and the winner is still
\* propagated along the forward link of the slot-2 match.
C3_PlayInRouting ==
    [][ \A id \in MatchIds, side \in Sides :
          ( /\ SetWinnerStep(id, side)
            /\ matches[id].round = 0 /\ matches[id].slot = 2 )
          => LET M == matches[id]
             IN  /\ \A k \in DOMAIN matches :
                        ( /\ matches[k].conference = M.conference
                          /\ matches[k].round = 0 /\ matches[k].slot = 3 )
                        => /\ SameTeam(matches'[k], "B", M, Other(side))
                           /\ NoPrediction(matches'[k])
                 /\ M.next_match_id \in DOMAIN matches
                      => SameTeam(matches'[M.next_match_id],
                                  IF M.next_slot = "a" THEN "A" ELSE "B", M, side) ]_vars

\* GSW was picked in play-in game 2 while game 3 had a pick: LAL, the loser,
\* is team B of game 3, whose pick is gone, and GSW is seeded into round 1
C3_Witness ==
    /\ last.op = "handleSetWinner" /\ last.match = "p2" /\ last.side = "B"
    /\ matches # NoMatches
    /\ matches["p3"].team_b = "LAL" /\ matches["p3"].team_b_name = "Lakers"
    /\ matches["p3"].predicted_winner = NULL
    /\ srv.matches["p3"].predicted_winner = "ATL"
    /\ matches["r1"].team_b_code = "GSW"

\* the matches reached from match id through forward links
RECURSIVE ForwardChain(_, _, _)
ForwardChain(g, id, n) ==
    IF n = 0 \/ g[id].next_match_id \notin DOMAIN g THEN {}
    ELSE {g[id].next_match_id} \cup ForwardChain(g, g[id].next_match_id, n - 1)

Downstream(g, id) == ForwardChain(g, id, Cardinality(DOMAIN g))

\* C4: after setWinner changes the predicted winner of M from X to Y, X
\* occupies no participant slot of any match reached from M through forward
\* links.
C4_LoserLeavesDownstream ==
    [][ \A id \in MatchIds, side \in Sides :
          ( /\ SetWinnerStep(id, side)
            /\ matches[id].predicted_winner # NULL
            /\ matches[id].predicted_winner # matches[id][TeamKey(side)] )
          => \A k \in Downstream(matches', id) :
                 matches[id].predicted_winner
                     \notin {matches'[k].team_a, matches'[k].team_b} ]_vars

\* a mutation run has finished its recovery: its request failed, it has
\* awaited loadBracket({silent: true}) and cleared the busy marker
Recovered == last.op = "LoadSettled" /\ last.caught

C6_QuiescentGraphEqualsBackend ==
    ( /\ matches # NoMatches
      /\ error = NULL
      /\ \A h \in DOMAIN handlers : handlers[h].pc = "idle" )
    => matches = srv.matches

\* C7: no two mutation requests for the same match are in flight at the
\* same time.
C7_OneRequestPerMatch ==
    \A h1, h2 \in DOMAIN handlers :
        ( /\ h1 # h2
          /\ handlers[h1].pc \in {"patch", "patch_ok", "patch_err"}
          /\ handlers[h2].pc \in {"patch", "patch_ok", "patch_err"} )
        => handlers[h1].match # handlers[h2].match

\* C8: in every reachable state a round-0 match that has a predicted winner
\* has predicted_winner_games = 1.
C8_PlayInGamesIsOne ==
    matches # NoMatches =>
        \A id \in DOMAIN matches :
            ( matches[id].round = 0 /\ matches[id].predicted_winner # NULL )
            => matches[id].predicted_winner_games = 1

\* the other team of play-in game 3 was picked over a recorded pick
C8_Witness ==
    /\ last.op = "handleSetWinner" /\ last.match = "p3" /\ last.side = "B"
    /\ matches # NoMatches
    /\ matches["p3"].predicted_winner = matches["p3"].team_b
    /\ matches["p3"].predicted_winner_games = 1
    /\ srv.matches["p3"].predicted_winner = "ATL"

\* C9: setGames on a round-0 match leaves everything as it was: graph,
\* pending-games cache, busy marker, error message, and no request is sent.
C9_SetGamesPlayInRejected ==
    [][ \A id \in MatchIds :
          ( /\ clicks' # clicks
            /\ last'.op = "handleSelectGames" /\ last'.match = id
            /\ matches # NoMatches
            /\ matches[id].round = 0 )
          => UNCHANGED << matches, pendingGames, updatingMatchId, error,
                          handlers, srv, bracket, loading, bracketName >> ]_vars

\* an editor selected a series length on play-in game 2, which has a pick
C9_Witness ==
    /\ last.op = "handleSelectGames" /\ last.match = "p2" /\ last.games = 5
    /\ canEdit
    /\ matches # NoMatches
    /\ matches["p2"].predicted_winner = "LAL"
    /\ matches["p2"].predicted_winner_games = 1

\* C10: for a match of round > 0, setWinner records and sends the recorded
\* length if the recorded winner is the team picked, else the pending length
\* of the match if there is one, else 4.
C10_GamesRecorded ==
    [][ \A id \in MatchIds, side \in Sides :
          ( SetWinnerStep(id, side) /\ matches[id].round > 0 )
          => LET M == matches[id]
                 picked == M[TeamKey(side)]
                 expected ==
                     IF M.predicted_winner = picked THEN M.predicted_winner_games
                     ELSE IF pendingGames[id] # NoGames THEN pendingGames[id]
                     ELSE 4
             IN  /\ matches'[id].predicted_winner = picked
                 /\ matches'[id].predicted_winner_games = expected
                 /\ \E h \in DOMAIN handlers :
                        /\ handlers[h].pc = "idle"
                        /\ handlers'[h].pc = "patch"
                        /\ handlers'[h].kind = "set_winner"
                        /\ handlers'[h].match = id
                        /\ handlers'[h].team = picked
                        /\ handlers'[h].games = expected ]_vars

\* DEN was picked in the round-1 series, which had no recorded pick and a
\* pending length of 5: the 5 is recorded and sent, not the default
C10_Witness ==
    /\ last.op = "handleSetWinner" /\ last.match = "r1" /\ last.side = "A"
    /\ last.games = 5
    /\ matches # NoMatches
    /\ matches["r1"].predicted_winner = "DEN"
    /\ matches["r1"].predicted_winner_games = 5
    /\ pendingGames["r1"] = NoGames
    /\ srv.matches["r1"].predicted_winner = NULL

\* the graph after handleSetWinner(match id, side) is called once more on
\* graph g with pending-games cache pend
SetWinnerAgain(g, pend, id, side) ==
    SetWinnerInState(g, g[id], side,
                     GamesForPick(g[id], g[id][TeamKey(side)], pend[id]))

\* C11: applying setWinner(M, side) a second time, directly after the first,
\* yields the graph the first application left: M, M's forward target and
\* play-in slot 3 are as they were after the first.
C11_SetWinnerIdempotent ==
    [][ \A id \in MatchIds, side \in Sides :
          SetWinnerStep(id, side)
          => SetWinnerAgain(matches', pendingGames', id, side) = matches' ]_vars

\* DEN was picked in the round-1 series, the backend accepted the pick, and
\* DEN was picked again: the graph is the one the first pick produced
C11_Witness ==
    /\ last.op = "handleSetWinner" /\ last.match = "r1" /\ last.side = "A"
    /\ \E h \in DOMAIN handlers :
           handlers[h].pc = "patch" /\ handlers[h].match = "r1"
    /\ srv.matches["r1"].predicted_winner = "DEN"
    /\ matches["r1"].predicted_winner = "DEN"
    /\ matches["r2"].team_a = "DEN"
    /\ matches = srv.matches

\* a step in which handler run h sends PATCH /bracket/:id/save
SaveSubmitted(h) == handlers[h].pc = "idle" /\ handlers'[h].pc = "save"

\* C12: the save request is sent only when the graph is loaded, has matches,
\* and every match with both participants has a predicted winner and, for
\* round > 0, a games value.
C12_SaveOnlyWhenDecided ==
    [][ \A h \in DOMAIN handlers :
          SaveSubmitted(h)
          => /\ matches # NoMatches
             /\ DOMAIN matches # {}
             /\ \A k \in DOMAIN matches :
                    ( matches[k].team_a # NULL /\ matches[k].team_b # NULL )
                    => /\ matches[k].predicted_winner # NULL
                       /\ matches[k].round > 0
                              => matches[k].predicted_winner_games # NoGames ]_vars

\* the owner saved a bracket in which every series that has its two teams
\* is picked; the east play-in game without teams did not stand in the way
C12_Witness ==
    /\ last.op = "handleSaveBracket"
    /\ saving
    /\ \E h \in DOMAIN handlers :
           handlers[h].pc = "save" /\ handlers[h].data.name = "My bracket"
    /\ matches # NoMatches
    /\ matches["e3"].team_a = NULL /\ matches["e3"].predicted_winner = NULL
    /\ matches["r2"].predicted_winner = "BOS"

\* the caller holds edit rights on the loaded bracket: its owner, or an
\* admin on the master bracket
HoldsEditRights ==
    /\ bracket # NoBracket
    /\ bracket.is_owner \/ (isAdmin /\ bracket.is_master)

\* C13: a setWinner or setGames call by a caller without edit rights, and a
\* setWinner call on a match that misses a participant, change nothing: the
\* graph, the pending-games cache, the busy marker and the error message
\* are as before and no request is sent.
C13_PreconditionViolationIsNoOp ==
    [][ \A id \in MatchIds :
          ( /\ clicks' # clicks
            /\ last'.match = id
            /\ matches # NoMatches
            /\ \/ /\ last'.op \in {"handleSetWinner", "handleSelectGames"}
                  /\ ~HoldsEditRights
               \/ /\ last'.op = "handleSetWinner"
                  /\ matches[id].team_a = NULL \/ matches[id].team_b = NULL )
          => UNCHANGED << matches, pendingGames, updatingMatchId, error,
                          handlers, srv >> ]_vars

\* a visitor called setWinner on play-in game 2, which has both teams
C13_Witness ==
    /\ last.op = "handleSetWinner" /\ last.match = "p2" /\ last.side = "B"
    /\ bracket # NoBracket /\ ~HoldsEditRights
    /\ matches # NoMatches
    /\ matches["p2"].team_a = "LAL" /\ matches["p2"].team_b = "GSW"
    /\ matches["p2"].predicted_winner = "LAL"
    /\ matches = srv.matches
    /\ updatingMatchId = NULL /\ error = NULL
    /\ \A h \in DOMAIN handlers : handlers[h].pc = "idle"

\* a step in which the user called handleUndo(match id)
UndoStep(id) ==
    /\ clicks' # clicks
    /\ last'.op = "handleUndo" /\ last'.match = id

\* the user is an admin and the loaded bracket is the master bracket
AdminOnMaster == isAdmin /\ bracket # NoBracket /\ bracket.is_master

\* C14: undo called by anyone but an admin on the master bracket, the
\* bracket's owner included, leaves the graph, the pending-games cache, the
\* busy marker and the error message unchanged and sends nothing.
C14_UndoOnlyAdminOnMaster ==
    [][ \A id \in MatchIds :
          ( UndoStep(id) /\ ~AdminOnMaster )
          => UNCHANGED << matches, pendingGames, updatingMatchId, error,
                          handlers, srv >> ]_vars

\* the owner, who may edit, called undo on the picked play-in game 2
C14_Witness ==
    /\ last.op = "handleUndo" /\ last.match = "p2"
    /\ bracket # NoBracket /\ bracket.is_owner /\ canEdit /\ ~AdminOnMaster
    /\ matches # NoMatches
    /\ matches["p2"].predicted_winner = "LAL"
    /\ updatingMatchId = NULL
    /\ \A h \in DOMAIN handlers : handlers[h].pc = "idle"

\* C15: the local effect of an accepted undo(M) is exactly that M's
\* predicted_winner and predicted_winner_games become absent and M's
\* pending-games entry is removed; every other match, the team M's pick put
\* into its forward target or play-in slot 3 and the target's prediction
\* included, is unchanged.
C15_UndoLocalEffect ==
    [][ \A id \in MatchIds :
          ( UndoStep(id) /\ AdminOnMaster /\ matches # NoMatches )
          => /\ matches' = [matches EXCEPT
                               ![id].predicted_winner = NULL,
                               ![id].predicted_winner_games = NoGames]
             /\ pendingGames' = [pendingGames EXCEPT ![id] = NoGames] ]_vars

\* the admin picked LAL in the round-1 series and then undid play-in game 2,
\* which had sent LAL there: LAL still plays in round 1 and is still picked,
\* and GSW is still in play-in game 3
C15_Witness ==
    /\ last.op = "handleUndo" /\ last.match = "p2"
    /\ AdminOnMaster
    /\ matches # NoMatches
    /\ matches["p2"].predicted_winner = NULL
    /\ matches["p2"].predicted_winner_games = NoGames
    /\ matches["r1"].team_b = "LAL"
    /\ matches["r1"].predicted_winner = "LAL"
    /\ matches["p3"].team_b = "GSW"
    /\ srv.matches["p2"].predicted_winner = "LAL"

\* handler run h caught a failed request and is suspended in the reload of
\* its recovery
InRecovery(h) ==
    handlers[h].caught /\ handlers[h].pc \in {"load", "load_ok", "load_err"}

\* C16: when a set-winner, set-games or undo request has failed, an error
\* message is set while the handler is suspended in its reload, and it is
\* still set when that reload has completed successfully.
C16_MutationErrorVisible ==
    /\ \A h \in DOMAIN handlers : InRecovery(h) => error # NULL
    /\ ( Recovered /\ last.ok ) => error # NULL

\* the bracket grid is rendered: {!loading && !error && matches && (...)}
GraphRendered == ~loading /\ error = NULL /\ matches # NoMatches

\* the initial load has settled and did not store a bracket
InitialLoadFailed == ~loading /\ bracket = NoBracket

\* C17: after a failed initial load an error message is set, the graph is
\* still unloaded and not rendered, and no request is outstanding: neither
\* a mutation or save (none is accepted) nor a new load (no retry).
C17_InitialLoadFailure ==
    InitialLoadFailed
    => /\ error # NULL
       /\ matches = NoMatches
       /\ ~GraphRendered
       /\ ~saving /\ updatingMatchId = NULL
       /\ \A h \in DOMAIN handlers : handlers[h].pc = "idle"

\* the initial load failed and the owner then tried to pick a winner
C17_Witness ==
    /\ InitialLoadFailed
    /\ last.op = "handleSetWinner" /\ last.match = "p2"
    /\ srv.bracket.is_owner
    /\ srv.matches # NoMatches
    /\ error = "Failed to load bracket"
    /\ matches = NoMatches
    /\ \A h \in DOMAIN handlers : handlers[h].pc = "idle"

\* a step in which the user called handleSelectGames(match id, g) with edit
\* rights on a loaded graph, for a match after the play-in round
SetGamesStep(id, g) ==
    /\ clicks' # clicks
    /\ last'.op = "handleSelectGames" /\ last'.match = id /\ last'.games = g
    /\ matches # NoMatches
    /\ HoldsEditRights
    /\ matches[id].round > 0

\* C18: setGames(M, g) on a round > 0 match without recorded winner stores g
\* in M's pending-games entry and nothing else: the graph, the other
\* entries, the busy marker and the error are unchanged and no request is
\* sent.
C18_SetGamesPendingOnly ==
    [][ \A id \in MatchIds, g \in gameOptions :
          ( SetGamesStep(id, g) /\ matches[id].predicted_winner = NULL )
          => /\ pendingGames'[id] = g
             /\ \A k \in MatchIds \ {id} : pendingGames'[k] = pendingGames[k]
             /\ UNCHANGED << matches, updatingMatchId, error, handlers, srv >> ]_vars

\* the owner chose 5 games for the round-1 series before picking its winner
C18_Witness ==
    /\ last.op = "handleSelectGames" /\ last.match = "r1" /\ last.games = 5
    /\ HoldsEditRights
    /\ matches # NoMatches
    /\ matches["r1"].team_a # NULL /\ matches["r1"].team_b # NULL
    /\ matches["r1"].predicted_winner = NULL
    /\ matches["r1"].predicted_winner_games = NoGames
    /\ pendingGames["r1"] = 5
    /\ updatingMatchId = NULL
    /\ \A h \in DOMAIN handlers : handlers[h].pc = "idle"

\* C19: setGames(M, g) on a round > 0 match with a recorded winner changes
\* M's predicted_winner_games to g and nothing else in the graph or in the
\* pending-games cache, and the request sent carries M's recorded winner
\* and g.
C19_SetGamesRecorded ==
    [][ \A id \in MatchIds, g \in gameOptions :
          ( SetGamesStep(id, g) /\ matches[id].predicted_winner # NULL )
          => /\ matches' = [matches EXCEPT ![id].predicted_winner_games = g]
             /\ pendingGames' = pendingGames
             /\ \E h \in DOMAIN handlers :
                    /\ handlers[h].pc = "idle"
                    /\ handlers'[h].pc = "patch"
                    /\ handlers'[h].match = id
                    /\ handlers'[h].team = matches[id].predicted_winner
                    /\ handlers'[h].games = g
                    /\ \A k \in DOMAIN handlers \ {h} : handlers'[k] = handlers[k] ]_vars

\* the owner changed the round-1 series from LAL in 6 to LAL in 5: the
\* round-2 series it feeds keeps LAL and its pick BOS in 7
C19_Witness ==
    /\ last.op = "handleSelectGames" /\ last.match = "r1" /\ last.games = 5
    /\ matches # NoMatches
    /\ matches["r1"].predicted_winner = "LAL"
    /\ matches["r1"].predicted_winner_games = 5
    /\ matches["r2"].team_a = "LAL"
    /\ matches["r2"].predicted_winner = "BOS"
    /\ matches["r2"].predicted_winner_games = 7
    /\ srv.matches["r1"].predicted_winner_games = 6
    /\ \E h \in DOMAIN handlers :
           /\ handlers[h].pc = "patch" /\ handlers[h].match = "r1"
           /\ handlers[h].team = "LAL" /\ handlers[h].games = 5

\* the fields of a match a pick may write
PickFields == {"predicted_winner", "predicted_winner_games"}
SlotFields(side) ==
    {TeamKey(side), NameKey(side), CodeKey(side), LogoKey(side),
     PrimaryKey(side), SecondaryKey(side)}

\* match `after` equals match `before` except, at most, in `fields`
SameExcept(after, before, fields) ==
    /\ DOMAIN after = DOMAIN before
    /\ \A f \in DOMAIN before \ fields : after[f] = before[f]

\* C20: setWinner(M, side) records the pick on M and changes nothing of M
\* but its prediction, changes of M's forward target nothing but the linked
\* slot's team fields and the prediction, changes of the round-0 / slot-3
\* match of M's conference, and only when M is round 0 / slot 2, nothing but
\* the team-B fields and the prediction, and changes no other match; without
\* a forward link, or with a link to a match that is not in the graph, there
\* is no forward write, and no error is set.
C20_SetWinnerFrame ==
    [][ \A id \in MatchIds, side \in Sides :
          SetWinnerStep(id, side)
          => LET M == matches[id]
                 linked == M.next_match_id # NULL /\ M.next_slot # NULL
                 dest == IF M.next_slot = "a" THEN "A" ELSE "B"
                 playIn2 == M.round = 0 /\ M.slot = 2
             IN  /\ matches'[id].predicted_winner = M[TeamKey(side)]
                 /\ error' = NULL
                 /\ DOMAIN matches' = DOMAIN matches
                 /\ \A k \in DOMAIN matches :
                        IF k = id
                          THEN SameExcept(matches'[k], matches[k], PickFields)
                        ELSE IF linked /\ k = M.next_match_id
                          THEN SameExcept(matches'[k], matches[k],
                                          SlotFields(dest) \cup PickFields)
                        ELSE IF /\ playIn2
                                /\ matches[k].conference = M.conference
                                /\ matches[k].round = 0 /\ matches[k].slot = 3
                          THEN SameExcept(matches'[k], matches[k],
                                          SlotFields("B") \cup PickFields)
                        ELSE matches'[k] = matches[k] ]_vars

\* BOS was picked in the round-2 series, whose forward link names a match
\* that is not in the graph: the pick is recorded, no other match changed
C20_Witness ==
    /\ last.op = "handleSetWinner" /\ last.match = "r2" /\ last.side = "B"
    /\ matches # NoMatches
    /\ matches["r2"].next_match_id = "f1"
    /\ "f1" \notin DOMAIN matches
    /\ matches["r2"].predicted_winner = "BOS"
    /\ matches["r2"].predicted_winner_games = 4
    /\ \A k \in DOMAIN matches \ {"r2"} : matches[k] = srv.matches[k]
    /\ error = NULL

\* ---------------------------------------------------------------- C21
\* a set-winner request of run h is outstanding: sent, and its continuation
\* has not run yet
SetWinnerInFlight(h) ==
    /\ handlers[h].kind = "set_winner"
    /\ handlers[h].pc \in {"patch", "patch_ok", "patch_err"}

\* the in-memory match of run h's request records the request's pick
RecordsRequest(g, req) ==
    /\ g # NoMatches
    /\ g[req.match].predicted_winner = req.team
    /\ g[req.match].predicted_winner_games = req.games

\* C21 as stated: in every state in which a set-winner request for match M
\* is in flight, the in-memory match M records that request's team as
\* predicted_winner and its games value as predicted_winner_games.
C21_WriteOutlastsRequest ==
    \A h \in Slots : SetWinnerInFlight(h) => RecordsRequest(matches, handlers[h])

\* C21 amended: the optimistic write precedes the request: in the step that
\* sends a set-winner request for match M, the in-memory match M records the
\* request's team and games value.
C21_WritePrecedesRequest ==
    [][ \A h \in Slots :
          ( /\ handlers[h].pc = "idle"
            /\ handlers'[h].pc = "patch"
            /\ handlers'[h].kind = "set_winner" )
          => RecordsRequest(matches', handlers'[h]) ]_vars

\* a pick of DEN on r1 has just been sent while another request is
\* outstanding, and r1 records DEN
C21_Witness ==
    /\ last.op = "handleSetWinner" /\ last.match = "r1"
    /\ \E h, k \in Slots :
          /\ h # k
          /\ handlers[k].pc = "patch"
          /\ handlers[h].pc = "patch" /\ handlers[h].kind = "set_winner"
          /\ handlers[h].match = "r1" /\ handlers[h].team = "DEN"
          /\ handlers[h].games = matches["r1"].predicted_winner_games
          /\ matches["r1"].predicted_winner = "DEN"

\* ---------------------------------------------------------------- C22
\* the request of undo run h settles in this step
UndoRequestSettles(h) ==
    /\ handlers[h].kind = "undo"
    /\ handlers[h].pc \in {"patch_ok", "patch_err"}
    /\ handlers'[h].pc \notin {"patch_ok", "patch_err"}

\* the reload of undo run h settles in this step
UndoReloadSettles(h) ==
    /\ handlers[h].kind = "undo"
    /\ handlers[h].pc \in {"load_ok", "load_err"}
    /\ handlers'[h].pc \notin {"load_ok", "load_err"}

C24_LockedIsEditGate ==
    [][ savingLockedForUser
        => /\ \A h \in Slots :
                 handlers[h].pc = "idle" => handlers'[h].pc \notin {"patch", "save"}
           /\ (clicks' # clicks /\ last'.op \in {"handleSetWinner", "handleSelectGames"})
              => matches' = matches ]_vars

\* ---------------------------------------------------------------- C25
\* a mutation handler (set-winner, set-games or undo) is still running
MutationRunning ==
    \E h \in Slots : handlers[h].kind \in {"set_winner", "set_games", "undo"}

\* C25: if every request is eventually answered or fails, the busy marker
\* updatingMatchId always returns to null, and it is null whenever no
\* mutation handler is running.
C25_MarkerReleased ==
    /\ [](~MutationRunning => updatingMatchId = NULL)
    /\ (updatingMatchId # NULL) ~> (updatingMatchId = NULL)

\* a pick whose request and reload both failed has ended, and the marker it
\* had set on r1 is null again
C25_Witness ==
    /\ last.op = "LoadSettled" /\ last.kind = "set_winner" /\ last.match = "r1"
    /\ last.caught /\ ~last.ok
    /\ ~MutationRunning
    /\ updatingMatchId = NULL

\* ---------------------------------------------------------------- C26
\* a series length, where one is recorded, is one of the offered options
Offered(g) == g # NoGames => g \in gameOptions

\* C26: for every match of round > 0, the games value in the in-memory
\* graph, in the pending-games cache and in every set-winner or set-games
\* request is one of 4, 5, 6, 7 (the loaded graphs hold only such values and
\* the user chooses from gameOptions).
C26_GamesInOptions ==
    /\ matches # NoMatches
       => \A k \in DOMAIN matches :
              matches[k].round > 0
              => /\ Offered(matches[k].predicted_winner_games)
                 /\ matches[k].predicted_winner # NULL
                    => matches[k].predicted_winner_games \in gameOptions
    /\ \A k \in DOMAIN pendingGames : Offered(pendingGames[k])
    /\ \A h \in Slots :
          ( /\ handlers[h].kind \in {"set_winner", "set_games"}
            /\ srv.matches[handlers[h].match].round > 0 )
          => handlers[h].games \in gameOptions

\* the final had BOS recorded in 7; the user picked LAL instead, with no
\* pending length: 4 games are recorded and sent, while r1 keeps its 6
C26_Witness ==
    /\ last.op = "handleSetWinner" /\ last.match = "r2" /\ last.side = "A"
    /\ matches # NoMatches
    /\ matches["r2"].predicted_winner = "LAL"
    /\ matches["r2"].predicted_winner_games = 4
    /\ matches["r1"].predicted_winner_games = 6
    /\ \E h \in Slots :
          /\ handlers[h].pc = "patch" /\ handlers[h].match = "r2"
          /\ handlers[h].games = 4

\* ---------------------------------------------------------------- C27
\* C27: in every reachable state the pending-games cache holds an entry only
\* for matches without a recorded predicted winner.
C27_PendingOnlyWithoutWinner ==
    matches # NoMatches
    => \A k \in DOMAIN matches :
           pendingGames[k] # NoGames => matches[k].predicted_winner = NULL

\* C28: in every reachable state each match of the in-memory graph has a
\* predicted winner exactly when it has a predicted series length.
C28_WinnerIffGames ==
    matches # NoMatches
    => \A k \in DOMAIN matches :
           (matches[k].predicted_winner = NULL)
               <=> (matches[k].predicted_winner_games = NoGames)

\* with every series picked, the user picked GSW in play-in game 2: the pick
\* has winner and length, and both play-in game 3 (routing) and the round-1
\* series (forward propagation) lost winner and length together
C28_Witness ==
    /\ last.op = "handleSetWinner" /\ last.match = "p2" /\ last.side = "B"
    /\ matches # NoMatches
    /\ matches["p2"].predicted_winner = "GSW"
    /\ matches["p2"].predicted_winner_games = 1
    /\ matches["p3"].predicted_winner = NULL
    /\ matches["p3"].predicted_winner_games = NoGames
    /\ matches["r1"].predicted_winner = NULL
    /\ matches["r1"].predicted_winner_games = NoGames
    /\ srv.matches["p3"].predicted_winner_games = 1
    /\ srv.matches["r1"].predicted_winner_games = 6
    /\ matches["r2"].predicted_winner_games = 7

\* ---------------------------------------------------------------- C29
\* the body of the PATCH a handler run sends: handleSetWinner and
\* handleSelectGames both send the action set_winner
Instruction(req) ==
    [ action |-> IF req.kind = "undo" THEN "undo" ELSE "set_winner",
      match |-> req.match, team |-> req.team, games |-> req.games ]

\* C29: for a match of round > 0 with recorded winner W and games g, picking
\* W again with handleSetWinner and selecting g again with handleSelectGames
\* send the same instruction and leave the same in-memory graph.
C29_RepickEqualsReselect ==
    (matches # NoMatches /\ canEdit)
    => \A id \in DOMAIN matches :
          LET M == matches[id]
              W == M.predicted_winner
              g == M.predicted_winner_games
          IN  ( /\ M.round > 0
                /\ W # NULL /\ g # NoGames
                /\ M.team_a # NULL /\ M.team_b # NULL
                /\ W \in {M.team_a, M.team_b} )
              => LET side == IF W = M.team_a THEN "A" ELSE "B"
                     games == GamesForPick(M, M[TeamKey(side)], pendingGames[id])
                 IN  /\ Instruction(Request("set_winner", id, M[TeamKey(side)], games))
                          = Instruction(Request("set_games", id, W, g))
                     /\ SetWinnerInState(matches, M, side, games)
                          = SetGamesInState(matches, M, g)

\* ---------------------------------------------------------------- C30
\* the GET of run h has failed and loadBracket's continuation runs
FailedLoadSettles(h) ==
    /\ handlers[h].pc = "load_err"
    /\ handlers'[h].pc = "idle"

\* C30: when a load or reload fails, the bracket record, the in-memory graph
\* and the bracket name keep their values and an error message is recorded;
\* the run that awaited the load ends in the same step, and a mutation
\* handler's run clears the busy marker, also when the reload followed a
\* failed mutation.
C30_FailedLoadKeepsState ==
    [][ \A h \in Slots :
          FailedLoadSettles(h)
          => /\ bracket' = bracket
             /\ matches' = matches
             /\ bracketName' = bracketName
             /\ error' # NULL
             /\ handlers'[h] = Idle
             /\ handlers[h].kind = "load" => loading' = FALSE
             /\ handlers[h].kind # "load" => updatingMatchId' = NULL ]_vars

\* the owner picked GSW in play-in game 2, the request failed and so did the
\* reload: the run is over, the marker is clear, the message of the reload
\* is shown and the graph still holds the pick the backend never recorded
C30_Witness ==
    /\ last.op = "LoadSettled" /\ last.kind = "set_winner"
    /\ last.match = "p2" /\ ~last.ok /\ last.caught
    /\ \A h \in Slots : handlers[h] = Idle
    /\ updatingMatchId = NULL
    /\ error = LoadFailureMessage
    /\ bracket # NoBracket
    /\ matches # NoMatches
    /\ matches["p2"].predicted_winner = "GSW"
    /\ srv.matches["p2"].predicted_winner # "GSW"

====
